---- MODULE Spec2Model ----
(***************************************************************************)
(* A model of src/src/App.jsx: the KML/CSV upload handlers, the derived    *)
(* record index and metric range, the colour classifier and the GeoJSON    *)
(* style callback.                                                         *)
(*                                                                         *)
(* Representation of JavaScript values                                     *)
(*   string            a sequence of one-character strings                 *)
(*   string|undefined  [def |-> BOOLEAN, s |-> string]                     *)
(*   number|null       [k |-> "fin"|"nan"|"inf"|"ninf"|"null", v |-> Int]  *)
(***************************************************************************)
EXTENDS Integers, Sequences, FiniteSets, Bags, TLC

VARIABLES kmlData, csvRows, selectedMetric, readers, lastOp, lastFile,
          latestOk, rendered, colorArgs, colorOut

vars == <<kmlData, csvRows, selectedMetric, readers, lastOp, lastFile,
          latestOk, rendered, colorArgs, colorOut>>

----------------------------------------------------------------------------
(* Bounds of the model *)

\* The largest finite magnitude of a number: a scaled-down stand-in for
\* Number.MAX_VALUE of IEEE-754 doubles.  A data value or a difference of two
\* data values beyond it is +-Infinity, as in JavaScript.
MaxFinite == 1000

\* FileReader objects that may be reading at the same time
MaxReaders == 2

\* data lines of a generated CSV table
MaxDataLines == 2

\* placemarks of a generated KML document
MaxPlacemarks == 3

----------------------------------------------------------------------------
(* Strings *)

Undefined == [def |-> FALSE, s |-> <<>>]
Str(s) == [def |-> TRUE, s |-> s]

\* JavaScript truthiness of a string-or-undefined value: '' is falsy
Truthy(x) == x.def /\ x.s # <<>>

\* a || b on string-or-undefined values
OrElse(a, b) == IF Truthy(a) THEN a ELSE b

WhiteSpace == {" ", "\t", "\n", "\r"}

RECURSIVE TrimStart(_)
TrimStart(s) ==
    IF s # <<>> /\ Head(s) \in WhiteSpace THEN TrimStart(Tail(s)) ELSE s

RECURSIVE TrimEnd(_)
TrimEnd(s) ==
    IF s # <<>> /\ s[Len(s)] \in WhiteSpace
    THEN TrimEnd(SubSeq(s, 1, Len(s) - 1))
    ELSE s

\* String.prototype.trim
Trim(s) == TrimEnd(TrimStart(s))

\* String.prototype.split on a one-character separator: the pieces between
\* the occurrences of sep ('' splits into the one piece '')
RECURSIVE SplitFrom(_, _, _, _)
SplitFrom(s, sep, i, cur) ==
    IF i > Len(s) THEN <<cur>>
    ELSE IF s[i] = sep THEN <<cur>> \o SplitFrom(s, sep, i + 1, <<>>)
    ELSE SplitFrom(s, sep, i + 1, Append(cur, s[i]))

Split(s, sep) == SplitFrom(s, sep, 1, <<>>)

\* the piece before a "\n" loses the one "\r" that immediately precedes it
DropCR(piece) ==
    IF piece # <<>> /\ piece[Len(piece)] = "\r"
    THEN SubSeq(piece, 1, Len(piece) - 1)
    ELSE piece

\* text.split(/\r?\n/)
SplitLines(s) ==
    LET pieces == Split(s, "\n")
    IN [i \in 1..Len(pieces) |->
          IF i < Len(pieces) THEN DropCR(pieces[i]) ELSE pieces[i]]

\* a mutant of IndexOf: the index of the last element equal to x
IndexOfLast(arr, x) ==
    IF \E i \in 1..Len(arr) : arr[i] = x
    THEN (CHOOSE i \in 1..Len(arr) :
             arr[i] = x /\ \A j \in (i + 1)..Len(arr) : arr[j] # x) - 1
    ELSE -1

\* Array.prototype.indexOf: the 0-based index of the first element equal
\* to x, -1 when there is none
IndexOf(arr, x) ==
    IF \E i \in 1..Len(arr) : arr[i] = x
    THEN (CHOOSE i \in 1..Len(arr) :
             arr[i] = x /\ \A j \in 1..(i - 1) : arr[j] # x) - 1
    ELSE -1

\* arr[i] for a 0-based index: undefined outside the array
At(arr, i) == IF i + 1 \in 1..Len(arr) THEN Str(arr[i + 1]) ELSE Undefined

----------------------------------------------------------------------------
(* Numbers *)

Fin(n) == [k |-> "fin", v |-> n]
NaN == [k |-> "nan", v |-> 0]
PosInf == [k |-> "inf", v |-> 0]
NegInf == [k |-> "ninf", v |-> 0]
Null == [k |-> "null", v |-> 0]

\* the double nearest to the real n: +-Infinity beyond the finite range
ToDouble(n) ==
    IF n > MaxFinite THEN PosInf
    ELSE IF n < -MaxFinite THEN NegInf
    ELSE Fin(n)

\* Number.isFinite
IsFinite(x) == x.k = "fin"

Digits == {"0", "1", "2", "3", "4", "5", "6", "7", "8", "9"}

DigitValue(c) ==
    CASE c = "0" -> 0 [] c = "1" -> 1 [] c = "2" -> 2 [] c = "3" -> 3
      [] c = "4" -> 4 [] c = "5" -> 5 [] c = "6" -> 6 [] c = "7" -> 7
      [] c = "8" -> 8 [] c = "9" -> 9

RECURSIVE DecimalValue(_)
DecimalValue(s) ==
    IF s = <<>> THEN 0
    ELSE 10 * DecimalValue(SubSeq(s, 1, Len(s) - 1)) + DigitValue(s[Len(s)])

AllDigits(s) == s # <<>> /\ \A i \in 1..Len(s) : s[i] \in Digits

\* Number(x) of a trimmed cell or undefined, for cells made of decimal digits
\* with an optional sign, of letters, or empty: Number(undefined) is NaN,
\* Number('') is 0, a decimal literal is its value, other text is NaN
ToNumber(x) ==
    IF ~x.def THEN NaN
    ELSE IF x.s = <<>> THEN Fin(0)
    ELSE IF AllDigits(x.s) THEN ToDouble(DecimalValue(x.s))
    ELSE IF Head(x.s) = "-" /\ AllDigits(Tail(x.s))
         THEN ToDouble(0 - DecimalValue(Tail(x.s)))
    ELSE NaN

----------------------------------------------------------------------------
(* handleCsvUpload: the parsing part of reader.onload *)

ColId == <<"i", "d">>
ColRevenue == <<"r", "e", "v", "e", "n", "u", "e">>
ColCost == <<"c", "o", "s", "t">>

TrimAll(cells) == [i \in 1..Len(cells) |-> Trim(cells[i])]

\* lines = text.trim().split(/\r?\n/)
CsvLines(text) == SplitLines(Trim(text))

\* header = lines[0].split(',').map(h => h.trim())
CsvHeader(text) == TrimAll(Split(CsvLines(text)[1], ","))

\* a mutant of MissingColumns: the upload is refused only when all three
\* columns are missing
MissingAllColumns(idIndex, revenueIndex, costIndex) ==
    idIndex = -1 /\ revenueIndex = -1 /\ costIndex = -1

\* if (idIndex === -1 || revenueIndex === -1 || costIndex === -1)
MissingColumns(idIndex, revenueIndex, costIndex) ==
    idIndex = -1 \/ revenueIndex = -1 \/ costIndex = -1

\* lines.slice(1)
DataLines(lines) == SubSeq(lines, 2, Len(lines))

\* one element of lines.slice(1).map(...)
CsvRow(line, idIndex, revenueIndex, costIndex) ==
    LET cols == TrimAll(Split(line, ","))
    IN [id |-> At(cols, idIndex),
        revenue |-> ToNumber(At(cols, revenueIndex)),
        cost |-> ToNumber(At(cols, costIndex))]

\* the outcome of the try block: the rows to publish, or the reason of the
\* early return
ParseCsv(text) ==
    LET lines == CsvLines(text)
    IN IF Len(lines) < 2 THEN [err |-> "EmptyTable", rows |-> <<>>]
       ELSE LET header == CsvHeader(text)
                idIndex == IndexOf(header, ColId)
                revenueIndex == IndexOf(header, ColRevenue)
                costIndex == IndexOf(header, ColCost)
                data == DataLines(lines)
            IN IF MissingColumns(idIndex, revenueIndex, costIndex)
               THEN [err |-> "MissingColumns", rows |-> <<>>]
               ELSE [err |-> "none",
                     rows |-> [i \in 1..Len(data) |->
                        CsvRow(data[i], idIndex, revenueIndex, costIndex)]]

----------------------------------------------------------------------------
(* getColorForValue *)

\* a colour string: '#rrggbb' (fmt "hex") or `rgb(r, g, b)` (fmt "rgb"),
\* the channels being numbers as the template literal prints them
Hex(r, g, b) == [fmt |-> "hex", r |-> Fin(r), g |-> Fin(g), b |-> Fin(b)]
Rgb(r, g, b) == [fmt |-> "rgb", r |-> r, g |-> g, b |-> b]

\* '#7c3aed', the default mid purple
NeutralColor == Hex(124, 58, 237)

\* start = { r: 237, g: 233, b: 254 } and end = { r: 88, g: 28, b: 135 }
LightAnchor == [r |-> 237, g |-> 233, b |-> 254]
DarkAnchor == [r |-> 88, g |-> 28, b |-> 135]

\* a - b on finite doubles: the difference overflows to +-Infinity
Minus(a, b) == ToDouble(a.v - b.v)

\* Math.round(x) for the rational x = num / den, den > 0: floor(x + 1/2)
RoundRatio(num, den) == (2 * num + den) \div (2 * den)

Sign(n) == IF n < 0 THEN -1 ELSE 1

\* Math.round(start + (end - start) * t) where t = n / d, n = value - min and
\* d = max - min (d is never 0 here).  A finite n over an infinite d is a
\* zero, an infinite n over a finite d is an infinity, and Infinity/Infinity
\* is NaN; the channel arithmetic on a finite t is exact.
Channel(start, end, n, d) ==
    IF IsFinite(n) /\ IsFinite(d)
    THEN Fin(RoundRatio(Sign(d.v) * (start * d.v + (end - start) * n.v),
                        Sign(d.v) * d.v))
    ELSE IF IsFinite(n) THEN Fin(start)
    ELSE IF IsFinite(d)
         THEN LET sn == IF n.k = "inf" THEN 1 ELSE -1
              IN IF sn * Sign(d.v) * Sign(end - start) > 0
                 THEN PosInf ELSE NegInf
    ELSE NaN

getColorForValue(value, min, max) ==
    IF ~IsFinite(value) \/ ~IsFinite(min) \/ ~IsFinite(max) \/ min = max
    THEN NeutralColor
    ELSE LET n == Minus(value, min)
             d == Minus(max, min)
         IN Rgb(Channel(LightAnchor.r, DarkAnchor.r, n, d),
                Channel(LightAnchor.g, DarkAnchor.g, n, d),
                Channel(LightAnchor.b, DarkAnchor.b, n, d))

----------------------------------------------------------------------------
(* Values derived from the state at every render *)

Metrics == {"revenue", "cost"}

\* row[selectedMetric]
MetricOf(row, metric) == IF metric = "revenue" THEN row.revenue ELSE row.cost

NoRow == [found |-> FALSE,
          row |-> [id |-> Undefined, revenue |-> NaN, cost |-> NaN]]

\* csvIdMap.get(key): csvRows.forEach(row => csvIdMap.set(row.id, row)) keeps
\* the last row of each id
csvIdMapGet(rows, key) ==
    IF \E i \in 1..Len(rows) : rows[i].id = key
    THEN [found |-> TRUE,
          row |-> rows[CHOOSE i \in 1..Len(rows) :
                         rows[i].id = key
                         /\ \A j \in (i + 1)..Len(rows) : rows[j].id # key]]
    ELSE NoRow

\* the finite values of the selected metric
metricValues(rows, metric) ==
    {MetricOf(rows[i], metric).v : i \in
        {j \in 1..Len(rows) : IsFinite(MetricOf(rows[j], metric))}}

metricMin(rows, metric) ==
    LET vals == metricValues(rows, metric)
    IN IF vals # {} THEN Fin(CHOOSE v \in vals : \A w \in vals : v <= w)
       ELSE Null

metricMax(rows, metric) ==
    LET vals == metricValues(rows, metric)
    IN IF vals # {} THEN Fin(CHOOSE v \in vals : \A w \in vals : v >= w)
       ELSE Null

----------------------------------------------------------------------------
(* The GeoJSON style callback *)

\* an optional style number of a feature: a stroke width in whole units, an
\* opacity in tenths (0.8 is 8)
NoNumber == [def |-> FALSE, v |-> 0]
StyleNumber(n) == [def |-> TRUE, v |-> n]

\* an optional colour property of a feature
NoColor == [def |-> FALSE, c |-> Hex(0, 0, 0)]
ColorProp(c) == [def |-> TRUE, c |-> c]

\* '#3388ff'
DefaultColor == Hex(51, 136, 255)

\* the defaults of the returned style: weight 3, and the opacities 0.8 and
\* 0.2 in tenths
DefaultWeight == 3
DefaultOpacity == 8
DefaultFillOpacity == 2

\* x || dflt on an optional number: undefined and 0 are falsy
NumberOr(x, dflt) == IF x.def /\ x.v # 0 THEN x.v ELSE dflt

\* a mutant of FeatureId: the properties.Id variant is not tried
FeatureIdWithoutId(feature) ==
    OrElse(feature.id, OrElse(feature.properties.id, feature.properties.ID))

\* feature?.id || properties?.id || properties?.Id || properties?.ID
FeatureId(feature) ==
    OrElse(feature.id,
        OrElse(feature.properties.id,
            OrElse(feature.properties.Id, feature.properties.ID)))

\* featureId ? csvIdMap.get(featureId) : null
JoinRow(feature, rows) ==
    LET featureId == FeatureId(feature)
    IN IF Truthy(featureId) THEN csvIdMapGet(rows, featureId) ELSE NoRow

\* if (csvRow && metricMin != null && metricMax != null)
UsesClassifier(csvRow, min, max) ==
    csvRow.found /\ min.k # "null" /\ max.k # "null"

Style(feature, rows, metric) ==
    LET csvRow == JoinRow(feature, rows)
        min == metricMin(rows, metric)
        max == metricMax(rows, metric)
        props == feature.properties
        fill0 == IF props.fill.def THEN props.fill.c ELSE DefaultColor
        stroke0 == IF props.stroke.def THEN props.stroke.c ELSE DefaultColor
        classified == UsesClassifier(csvRow, min, max)
        color == getColorForValue(MetricOf(csvRow.row, metric), min, max)
    IN [color |-> IF classified THEN color ELSE stroke0,
        weight |-> NumberOr(props.strokeWidth, DefaultWeight),
        opacity |-> NumberOr(props.strokeOpacity, DefaultOpacity),
        fillColor |-> IF classified THEN color ELSE fill0,
        fillOpacity |-> NumberOr(props.fillOpacity, DefaultFillOpacity)]

\* {kmlData && <GeoJSON data={kmlData} style={...} />}: for every feature
\* at a render, the record the callback looked up and the style it returned
Render(kml, rows, metric) ==
    IF kml.def
    THEN [i \in 1..Len(kml.features) |->
            [csvRow |-> JoinRow(kml.features[i], rows),
             style |-> Style(kml.features[i], rows, metric)]]
    ELSE <<>>

----------------------------------------------------------------------------
(* handleKmlUpload: the parsing part of reader.onload *)

\* A KML file as the handler sees it through DOMParser and toGeoJSON.kml:
\*   throws      parsing the text raises an exception
\*   libId       toGeoJSON copies a placemark's id attribute to feature.id
\*   placemarks  the Placemark elements in document order, each with
\*     id    the id attribute (undefined when getAttribute returns null)
\*     name  the text of the name element (undefined when there is none)
\*     geom  the placemark has a geometry, so toGeoJSON makes a feature of it
\*     ext   the properties toGeoJSON reads from ExtendedData and Style
NoExt == [Name |-> Undefined, id |-> Undefined, Id |-> Undefined,
          ID |-> Undefined, fill |-> NoColor, stroke |-> NoColor,
          strokeWidth |-> NoNumber, strokeOpacity |-> NoNumber,
          fillOpacity |-> NoNumber]

Placemark(id, name) == [id |-> id, name |-> name, geom |-> TRUE, ext |-> NoExt]

Kml(placemarks, libId) ==
    [throws |-> FALSE, libId |-> libId, placemarks |-> placemarks]

\* toGeoJSON.kml(kml).features[...] of one placemark
LibFeature(p, libId) ==
    [id |-> IF libId /\ Truthy(p.id) THEN p.id ELSE Undefined,
     properties |->
        [name |-> IF Truthy(p.name) THEN p.name ELSE Undefined,
         Name |-> p.ext.Name, id |-> p.ext.id, Id |-> p.ext.Id,
         ID |-> p.ext.ID, placemarkId |-> Undefined,
         fill |-> p.ext.fill, stroke |-> p.ext.stroke,
         strokeWidth |-> p.ext.strokeWidth,
         strokeOpacity |-> p.ext.strokeOpacity,
         fillOpacity |-> p.ext.fillOpacity]]

HasGeom(p) == p.geom

\* geojson = toGeoJSON.kml(kml): one feature per placemark that has a
\* geometry, in document order
ToGeoJSON(kml) ==
    LET withGeom == SelectSeq(kml.placemarks, HasGeom)
    IN [i \in 1..Len(withGeom) |-> LibFeature(withGeom[i], kml.libId)]

HasId(p) == Truthy(p.id)

\* placemarks.map(placemark => ({ id, name })).filter(p => p.id)
placemarkData(placemarks) ==
    SelectSeq([i \in 1..Len(placemarks) |->
                 [id |-> placemarks[i].id,
                  name |-> IF placemarks[i].name.def
                           THEN placemarks[i].name.s ELSE <<>>]],
              HasId)

\* nameToIdMap.get(key) after placemarkData.forEach(p => { if (p.name &&
\* p.id) nameToIdMap.set(p.name.trim(), p.id) }): the last entry of a name wins
nameToIdMapGet(pd, key) ==
    LET hits == {i \in 1..Len(pd) :
                    pd[i].name # <<>> /\ Truthy(pd[i].id)
                    /\ Trim(pd[i].name) = key}
    IN IF hits # {}
       THEN pd[CHOOSE i \in hits : \A j \in hits : j <= i].id
       ELSE Undefined

\* the body of geojson.features.forEach((feature, index) => ...), index
\* counted from 1
AddId(feature, index, pd) ==
    LET byIndex == IF index <= Len(pd) THEN pd[index].id ELSE Undefined
        featureName ==
            Trim(OrElse(feature.properties.name,
                    OrElse(feature.properties.Name, Str(<<>>))).s)
        id == IF Truthy(byIndex) THEN byIndex
              ELSE nameToIdMapGet(pd, featureName)
        stored == IF Truthy(id)
                  THEN [feature EXCEPT !.id = id,
                                       !.properties.id = id,
                                       !.properties.placemarkId = id]
                  ELSE feature
    IN IF ~Truthy(stored.id) /\ Truthy(stored.properties.id)
       THEN [stored EXCEPT !.id = stored.properties.id]
       ELSE stored

\* the outcome of the try block: the features to publish, or the reason
\* nothing is published
ParseKml(kml) ==
    IF kml.throws THEN [err |-> "Malformed", features |-> <<>>]
    ELSE LET geojson == ToGeoJSON(kml)
             pd == placemarkData(kml.placemarks)
             features == [i \in 1..Len(geojson) |-> AddId(geojson[i], i, pd)]
         IN IF Len(features) > 0
            THEN [err |-> "none", features |-> features]
            ELSE [err |-> "EmptyDocument", features |-> <<>>]

----------------------------------------------------------------------------
(* Files offered to the upload handlers *)

\* A CSV table and the text written from it: the cells of the header line and
\* of every data line, joined by commas; the lines joined by eol; trail after
\* the last line
RECURSIVE JoinSeq(_, _)
JoinSeq(pieces, sep) ==
    IF pieces = <<>> THEN <<>>
    ELSE IF Len(pieces) = 1 THEN pieces[1]
    ELSE pieces[1] \o sep \o JoinSeq(Tail(pieces), sep)

TableText(table) ==
    LET all == <<table.header>> \o table.lines
    IN JoinSeq([i \in 1..Len(all) |-> JoinSeq(all[i], <<",">>)], table.eol)
       \o table.trail

Table(header, lines, eol, trail) ==
    [header |-> header, lines |-> lines, eol |-> eol, trail |-> trail]

NoTable == Table(<<>>, <<>>, <<>>, <<>>)
NoKml == [throws |-> FALSE, libId |-> FALSE, placemarks |-> <<>>]

\* the File handed to beforeUpload: its text for a CSV file, the parsed
\* document for a KML file
CsvFile(table) ==
    [kind |-> "csv", text |-> TableText(table), table |-> table, kml |-> NoKml]
KmlFile(kml) ==
    [kind |-> "kml", text |-> <<>>, table |-> NoTable, kml |-> kml]
NoFile == [kind |-> "none", text |-> <<>>, table |-> NoTable, kml |-> NoKml]

LF == <<"\n">>
CRLF == <<"\r", "\n">>

S1 == <<"S", "1">>
S2 == <<"S", "2">>
S3 == <<"S", "3">>
North == <<"N", "o", "r", "t", "h">>
South == <<"S", "o", "u", "t", "h">>

HeaderPlain == <<ColId, ColRevenue, ColCost>>
HeaderPermuted == <<ColCost, ColId, ColRevenue>>
HeaderExtra == <<ColRevenue, <<"x">>, ColCost, ColId>>
HeaderPadded == <<<<" ">> \o ColId, <<" ">> \o ColRevenue \o <<" ">>,
                  ColCost \o <<" ">>>>
HeaderTwice == <<ColId, ColRevenue, ColCost, ColId>>
HeaderNameValue == <<<<"n", "a", "m", "e">>, <<"v", "a", "l", "u", "e">>>>
HeaderNoCost == <<ColId, ColRevenue>>

CsvHeaders == {HeaderPlain, HeaderPermuted, HeaderExtra, HeaderPadded,
               HeaderTwice, HeaderNameValue, HeaderNoCost}

LineA == <<S1, <<"1", "0", "0">>, <<"4", "0">>, S3>>
LineB == <<<<" ">> \o S2 \o <<" ">>, <<"2", "0", "0">>, <<" ", "1", "5", "0">>, S1>>
LineC == <<<<"4", "0">>, S1, <<"x">>, <<"7">>>>
LineShort == <<S1>>
LineBlank == <<<<>>>>
LineEmptyCells == <<<<>>, <<>>, <<>>>>

CsvDataLines == {LineA, LineB, LineC, LineShort, LineBlank, LineEmptyCells}

\* a line that text.trim() or the split leaves nothing of
BlankLine(line) == Trim(JoinSeq(line, <<",">>)) = <<>>

RECURSIVE SeqsUpTo(_, _)
SeqsUpTo(S, n) ==
    IF n = 0 THEN {<<>>}
    ELSE LET shorter == SeqsUpTo(S, n - 1)
         IN shorter \cup {Append(q, x) : q \in shorter, x \in S}

\* the generated tables: any header, up to MaxDataLines data lines of which
\* the last is not blank, either line ending, with or without a final newline
CsvTables ==
    {Table(h, ls, eol, trail) :
        h \in CsvHeaders,
        ls \in {q \in SeqsUpTo(CsvDataLines, MaxDataLines) :
                   q = <<>> \/ ~BlankLine(q[Len(q)])},
        eol \in {LF, CRLF},
        trail \in {<<>>, LF}}


\* the generated KML documents: up to MaxPlacemarks placemarks, each with a
\* geometry, with or without an id attribute and a name
PlacemarkIds == {Undefined, Str(S1), Str(S2)}
PlacemarkNames == {Undefined, Str(North), Str(<<" ">> \o North), Str(South)}

KmlPlacemarks == {Placemark(id, name) : id \in PlacemarkIds,
                                        name \in PlacemarkNames}

KmlDocuments ==
    {Kml(ps, libId) : ps \in SeqsUpTo(KmlPlacemarks, MaxPlacemarks),
                      libId \in BOOLEAN}

MalformedKml == [throws |-> TRUE, libId |-> FALSE, placemarks |-> <<>>]

\* one-placemark documents whose feature carries identifiers in its property
\* bag, and documents whose feature carries style properties
Red == Hex(255, 0, 0)

IdentifiedPlacemarks ==
    {[id |-> id, name |-> Str(North), geom |-> TRUE,
      ext |-> [NoExt EXCEPT !.id = pid, !.Id = pId, !.ID = pID]] :
        id \in {Undefined, Str(S1)},
        pid \in {Undefined, Str(<<>>), Str(S1), Str(S2)},
        pId \in {Undefined, Str(<<>>), Str(S2)},
        pID \in {Undefined, Str(S3)}}

StyledPlacemarks ==
    {[id |-> Str(S1), name |-> Str(North), geom |-> TRUE,
      ext |-> [NoExt EXCEPT !.strokeWidth = w, !.strokeOpacity = so,
                            !.fillOpacity = fo, !.fill = c, !.stroke = c]] :
        w \in {NoNumber, StyleNumber(0), StyleNumber(5)},
        so \in {NoNumber, StyleNumber(0), StyleNumber(10)},
        fo \in {NoNumber, StyleNumber(0), StyleNumber(5)},
        c \in {NoColor, ColorProp(Red)}}

StyleKmlFiles ==
    {KmlFile(Kml(<<p>>, libId)) :
        p \in IdentifiedPlacemarks \cup StyledPlacemarks, libId \in BOOLEAN}

LineS1 == <<S1, <<"1", "0", "0">>, <<"4", "0">>>>
LineS2 == <<S2, <<"2", "0", "0">>, <<"1", "5", "0">>>>
LineS1Text == <<S1, <<"x">>, <<"5">>>>
LineS1Again == <<S1, <<"3", "0", "0">>, <<"4", "0">>>>
LineNoId == <<<<>>, <<"7">>, <<"7">>>>
LineLow == <<S1, <<"-", "1", "0", "0", "0">>, <<"0">>>>
LineHigh == <<S2, <<"1", "0", "0", "0">>, <<"0">>>>
LineS1Empty == <<S1, <<>>, <<"4", "0">>>>
LineS2Short == <<S2, <<"2", "0", "0">>>>

\* the tables of the scenarios: two regions; a region without a numeric
\* revenue; one identifier twice and a line without identifier; the extreme
\* values; an empty revenue cell and a line too short to have a cost cell; a
\* header alone; a header without the cost column
TableRegions == Table(HeaderPlain, <<LineS1, LineS2>>, LF, <<>>)
TableTextRevenue == Table(HeaderPlain, <<LineS1Text>>, LF, LF)
TableDuplicate == Table(HeaderPlain, <<LineS1, LineNoId, LineS1Again>>, CRLF, <<>>)
TableExtremes == Table(HeaderPlain, <<LineLow, LineHigh>>, LF, <<>>)
TableGaps == Table(HeaderPlain, <<LineS1Empty, LineS2Short>>, LF, <<>>)
TableHeaderOnly == Table(HeaderPlain, <<>>, LF, <<>>)
TableNoCost == Table(HeaderNoCost, <<<<S1, <<"3">>>>>>, LF, <<>>)

StyleCsvFiles == {CsvFile(t) : t \in {TableRegions, TableTextRevenue,
                                      TableDuplicate, TableExtremes,
                                      TableGaps}}

\* the documents of the scenarios: North without id before South and a
\* name-tagged North that has no geometry; two placemarks with ids; a
\* document without placemarks; a document that does not parse
KmlNorthSouth ==
    Kml(<<Placemark(Undefined, Str(North)), Placemark(Str(S2), Str(South)),
          [Placemark(Str(S1), Str(North)) EXCEPT !.geom = FALSE]>>, TRUE)
KmlTwoIds ==
    Kml(<<Placemark(Str(S1), Str(North)), Placemark(Str(S2), Str(South))>>, TRUE)
KmlEmpty == Kml(<<>>, TRUE)

AppCsvFiles == {CsvFile(t) : t \in {TableRegions, TableTextRevenue,
                                    TableHeaderOnly, TableNoCost}}
AppKmlFiles == {KmlFile(k) : k \in {KmlNorthSouth, KmlTwoIds, KmlEmpty,
                                    MalformedKml}}

----------------------------------------------------------------------------
(* The application state and its handlers *)

\* useState(null) of kmlData
NoKmlData == [def |-> FALSE, features |-> <<>>]

NoColorArgs == [value |-> Null, min |-> Null, max |-> Null]

Init ==
    /\ kmlData = NoKmlData
    /\ csvRows = <<>>
    /\ selectedMetric = "revenue"
    /\ readers = EmptyBag
    /\ lastOp = "init"
    /\ lastFile = NoFile
    /\ latestOk = [csv |-> NoFile, kml |-> NoFile]
    /\ rendered = <<>>
    /\ colorArgs = NoColorArgs
    /\ colorOut = NoColor

\* the state setters of one handler take effect together, and the component
\* renders again with the new state
Publish(kml, rows, metric) ==
    /\ kmlData' = kml
    /\ csvRows' = rows
    /\ selectedMetric' = metric
    /\ rendered' = Render(kml, rows, metric)

\* the FileReader objects that are reading form a bag of files: they finish
\* in any order, and two of them may read the same file
Reading(file) == SetToBag({file})

\* handleCsvUpload(file): a new FileReader starts reading the file.
\* latestOk remembers the most recently started upload that parses.
handleCsvUpload(file) ==
    /\ BagCardinality(readers) < MaxReaders
    /\ readers' = readers (+) Reading(file)
    /\ lastOp' = "handleCsvUpload"
    /\ latestOk' = IF ParseCsv(file.text).err = "none"
                   THEN [latestOk EXCEPT !.csv = file] ELSE latestOk
    /\ UNCHANGED <<kmlData, csvRows, selectedMetric, rendered, lastFile,
                   colorArgs, colorOut>>

\* handleKmlUpload(file)
handleKmlUpload(file) ==
    /\ BagCardinality(readers) < MaxReaders
    /\ readers' = readers (+) Reading(file)
    /\ lastOp' = "handleKmlUpload"
    /\ latestOk' = IF ParseKml(file.kml).err = "none"
                   THEN [latestOk EXCEPT !.kml = file] ELSE latestOk
    /\ UNCHANGED <<kmlData, csvRows, selectedMetric, rendered, lastFile,
                   colorArgs, colorOut>>

\* a mutant of CsvLoaded: the metric is not reset by a load
CsvLoadedKeepsMetric(result, rows, metric) ==
    IF result.err = "none"
    THEN [csvRows |-> result.rows, selectedMetric |-> metric]
    ELSE [csvRows |-> rows, selectedMetric |-> metric]

\* setCsvRows(rows); setSelectedMetric('revenue') after a parse without
\* early return; nothing otherwise
CsvLoaded(result, rows, metric) ==
    IF result.err = "none"
    THEN [csvRows |-> result.rows, selectedMetric |-> "revenue"]
    ELSE [csvRows |-> rows, selectedMetric |-> metric]

\* reader.onload of a CSV upload: any reader that is reading may finish next
CsvOnload(file) ==
    /\ file.kind = "csv"
    /\ LET result == ParseCsv(file.text)
           after == CsvLoaded(result, csvRows, selectedMetric)
       IN /\ Publish(kmlData, after.csvRows, after.selectedMetric)
          /\ lastOp' = IF result.err = "none" THEN "csvLoaded"
                       ELSE IF result.err = "EmptyTable" THEN "csvEmptyTable"
                       ELSE "csvMissingColumns"
    /\ lastFile' = file
    /\ readers' = readers (-) Reading(file)
    /\ UNCHANGED <<latestOk, colorArgs, colorOut>>

\* setKmlData(geojson) when the document has features; nothing otherwise
KmlLoaded(result, kml) ==
    IF result.err = "none"
    THEN [def |-> TRUE, features |-> result.features]
    ELSE kml

\* reader.onload of a KML upload
KmlOnload(file) ==
    /\ file.kind = "kml"
    /\ LET result == ParseKml(file.kml)
       IN /\ Publish(KmlLoaded(result, kmlData), csvRows, selectedMetric)
          /\ lastOp' = IF result.err = "none" THEN "kmlLoaded"
                       ELSE IF result.err = "EmptyDocument"
                            THEN "kmlEmptyDocument"
                       ELSE "kmlMalformed"
    /\ lastFile' = file
    /\ readers' = readers (-) Reading(file)
    /\ UNCHANGED <<latestOk, colorArgs, colorOut>>

\* the Clear KML button, shown while kmlData is set
ClearKml ==
    /\ kmlData.def
    /\ Publish(NoKmlData, csvRows, selectedMetric)
    /\ lastOp' = "clearKml"
    /\ UNCHANGED <<readers, lastFile, latestOk, colorArgs, colorOut>>

\* the Color by select, shown while csvRows is not empty
setSelectedMetric(metric) ==
    /\ Len(csvRows) > 0
    /\ Publish(kmlData, csvRows, metric)
    /\ lastOp' = "setSelectedMetric"
    /\ UNCHANGED <<readers, lastFile, latestOk, colorArgs, colorOut>>

Next ==
    \/ \E file \in AppCsvFiles : handleCsvUpload(file)
    \/ \E file \in AppKmlFiles : handleKmlUpload(file)
    \/ \E file \in BagToSet(readers) : CsvOnload(file)
    \/ \E file \in BagToSet(readers) : KmlOnload(file)
    \/ ClearKml
    \/ \E metric \in Metrics : setSelectedMetric(metric)

Spec == Init /\ [][Next]_vars

----------------------------------------------------------------------------
(* The parsers and the style callback on generated inputs *)

\* one generated CSV file is being read
InitCsv ==
    /\ \E t \in CsvTables :
          /\ readers = Reading(CsvFile(t))
          /\ latestOk = [csv |-> IF ParseCsv(TableText(t)).err = "none"
                                 THEN CsvFile(t) ELSE NoFile,
                         kml |-> NoFile]
    /\ kmlData = NoKmlData /\ csvRows = <<>> /\ selectedMetric = "revenue"
    /\ lastOp = "handleCsvUpload" /\ lastFile = NoFile
    /\ rendered = <<>> /\ colorArgs = NoColorArgs /\ colorOut = NoColor

NextCsv == \E file \in BagToSet(readers) : CsvOnload(file)

SpecCsv == InitCsv /\ [][NextCsv]_vars

\* one generated KML file is being read
InitKml ==
    /\ \E k \in KmlDocuments \cup {MalformedKml} :
          /\ readers = Reading(KmlFile(k))
          /\ latestOk = [csv |-> NoFile,
                         kml |-> IF ParseKml(k).err = "none"
                                 THEN KmlFile(k) ELSE NoFile]
    /\ kmlData = NoKmlData /\ csvRows = <<>> /\ selectedMetric = "revenue"
    /\ lastOp = "handleKmlUpload" /\ lastFile = NoFile
    /\ rendered = <<>> /\ colorArgs = NoColorArgs /\ colorOut = NoColor

NextKml == \E file \in BagToSet(readers) : KmlOnload(file)

SpecKml == InitKml /\ [][NextKml]_vars

\* a CSV file and a KML file, both of which parse, are being read, and the
\* metric may be selected
InitStyle ==
    /\ \E c \in StyleCsvFiles, k \in StyleKmlFiles :
          /\ readers = Reading(c) (+) Reading(k)
          /\ latestOk = [csv |-> c, kml |-> k]
    /\ kmlData = NoKmlData /\ csvRows = <<>> /\ selectedMetric = "revenue"
    /\ lastOp = "handleKmlUpload" /\ lastFile = NoFile
    /\ rendered = <<>> /\ colorArgs = NoColorArgs /\ colorOut = NoColor

NextStyle ==
    \/ \E file \in BagToSet(readers) : CsvOnload(file)
    \/ \E file \in BagToSet(readers) : KmlOnload(file)
    \/ \E metric \in Metrics : setSelectedMetric(metric)

SpecStyle == InitStyle /\ [][NextStyle]_vars

\* getColorForValue on numbers of every kind
ColorNumbers ==
    {Null, NaN, PosInf, NegInf}
    \cup {Fin(n) : n \in {-MaxFinite, -1, 0, 1, 2, 100, 150, 200, MaxFinite}}

InitColor ==
    /\ colorArgs \in [value : ColorNumbers, min : ColorNumbers,
                      max : ColorNumbers]
    /\ colorOut = NoColor
    /\ kmlData = NoKmlData /\ csvRows = <<>> /\ selectedMetric = "revenue"
    /\ readers = EmptyBag /\ lastOp = "init" /\ lastFile = NoFile
    /\ latestOk = [csv |-> NoFile, kml |-> NoFile]
    /\ rendered = <<>>

ApplyColor ==
    /\ ~colorOut.def
    /\ colorOut' = ColorProp(getColorForValue(colorArgs.value, colorArgs.min,
                                              colorArgs.max))
    /\ UNCHANGED <<kmlData, csvRows, selectedMetric, readers, lastOp,
                   lastFile, latestOk, rendered, colorArgs>>

NextColor == ApplyColor

SpecColor == InitColor /\ [][NextColor]_vars

----------------------------------------------------------------------------
(* What the claims speak of, read from the files themselves *)

\* the 1-based position of the first header cell that is the column name,
\* 0 when no cell is
ColumnOf(header, name) ==
    LET at == {k \in 1..Len(header) : Trim(header[k]) = name}
    IN IF at = {} THEN 0 ELSE CHOOSE k \in at : \A m \in at : k <= m

TableHasColumns(table) ==
    \A name \in {ColId, ColRevenue, ColCost} : ColumnOf(table.header, name) > 0

\* the trimmed cell of a data line at a 1-based position, undefined when the
\* line has no such cell
TableCell(line, k) ==
    IF k \in 1..Len(line) THEN Str(Trim(line[k])) ELSE Undefined

\* an upload that must fail: a table without data lines or without a required
\* column, a document that does not parse or has no feature
FailingFile(file) ==
    IF file.kind = "csv"
    THEN file.table.lines = <<>> \/ ~TableHasColumns(file.table)
    ELSE file.kind = "kml"
         /\ (file.kml.throws
             \/ \A i \in 1..Len(file.kml.placemarks) :
                   ~file.kml.placemarks[i].geom)

\* the step is the onload of a reader (only onload removes a reader), and
\* lastFile' is the file it read
IsOnload == BagCardinality(readers') < BagCardinality(readers)

AllGeom(kml) == \A i \in 1..Len(kml.placemarks) : kml.placemarks[i].geom

----------------------------------------------------------------------------
(* The claims *)

\* C1: every failing upload attempt (a CSV text of fewer than 2 lines, a CSV
\* header lacking id, revenue or cost, a KML document with zero features or
\* one that throws while parsing) leaves kmlData, csvRows and selectedMetric
\* exactly as they were, whatever was loaded before.
C1_FailedUploadKeepsState ==
    [][(IsOnload /\ FailingFile(lastFile'))
         => (kmlData' = kmlData /\ csvRows' = csvRows
             /\ selectedMetric' = selectedMetric)]_vars

\* C1 witness: a CSV upload failed for missing columns while a KML document
\* and CSV rows were loaded and the metric was cost.
C1_Witness ==
    /\ lastOp = "csvMissingColumns" /\ FailingFile(lastFile)
    /\ kmlData.def /\ csvRows # <<>> /\ selectedMetric = "cost"

\* C2: with features aligned 1:1 with placemarks, every feature whose own
\* placemark (same position) carries an id attribute has exactly that id,
\* whatever the other placemarks carry.
C2_PositionalFirst ==
    (lastOp = "kmlLoaded" /\ AllGeom(lastFile.kml)) =>
        \A i \in 1..Len(lastFile.kml.placemarks) :
            lastFile.kml.placemarks[i].id.def =>
                kmlData.features[i].id = lastFile.kml.placemarks[i].id

\* C3: with features aligned 1:1 with placemarks, every feature whose own
\* placemark has no id attribute has the id of the last placemark that has an
\* id and the same trimmed name, and no id when there is no such placemark.
C3_FallbackByName ==
    (lastOp = "kmlLoaded" /\ AllGeom(lastFile.kml)) =>
        LET ps == lastFile.kml.placemarks
        IN \A i \in 1..Len(ps) :
              ~ps[i].id.def =>
                 LET same == {j \in 1..Len(ps) :
                                 /\ ps[j].id.def /\ ps[j].name.def
                                 /\ ps[i].name.def
                                 /\ Trim(ps[j].name.s) = Trim(ps[i].name.s)}
                 IN IF same = {}
                    THEN ~kmlData.features[i].id.def
                    ELSE kmlData.features[i].id
                           = ps[CHOOSE j \in same : \A m \in same : m <= j].id

\* C4: a CSV text whose header contains id, revenue and cost (in any order,
\* with any extra columns) and that has at least one data line loads
\* successfully into exactly one record per data line, in order; each record's
\* id is the trimmed cell at the header position of id, and its revenue and
\* cost are the numbers of the cells at the positions of revenue and cost.
C4_ParsingLossless ==
    LET table == lastFile.table
    IN (lastFile.kind = "csv" /\ table.lines # <<>> /\ TableHasColumns(table))
         => /\ Len(csvRows) = Len(table.lines)
            /\ \A i \in 1..Len(table.lines) :
                  /\ csvRows[i].id
                       = TableCell(table.lines[i], ColumnOf(table.header, ColId))
                  /\ csvRows[i].revenue
                       = ToNumber(TableCell(table.lines[i],
                                     ColumnOf(table.header, ColRevenue)))
                  /\ csvRows[i].cost
                       = ToNumber(TableCell(table.lines[i],
                                     ColumnOf(table.header, ColCost)))

\* C4 witness: a table with the columns in another order and an extra column
\* was loaded with two data lines.
C4_Witness ==
    /\ lastOp = "csvLoaded" /\ lastFile.table.header = HeaderExtra
    /\ Len(csvRows) >= 2 /\ csvRows[1].id.def


\* the identifier candidates of a feature, in the order they are tried
Candidates(feature) ==
    <<feature.id, feature.properties.id, feature.properties.Id,
      feature.properties.ID>>

\* the record the join must give for the candidates at the positions usable:
\* no match when no candidate is usable or no row has the first usable one as
\* its id, otherwise the last row whose id equals it
JoinOf(feature, usable) ==
    LET c == Candidates(feature)
    IN IF usable = {} THEN NoRow
       ELSE LET key == c[CHOOSE k \in usable : \A m \in usable : k <= m]
                hits == {j \in 1..Len(csvRows) : csvRows[j].id = key}
            IN IF hits = {} THEN NoRow
               ELSE [found |-> TRUE,
                     row |-> csvRows[CHOOSE j \in hits :
                                        \A m \in hits : m <= j]]

\* C5 (original): the feature's identifier is the first defined value among
\* feature.id, properties.id, properties.Id and properties.ID; the lookup
\* gives no match when it is absent or no key of the index, and otherwise the
\* last row whose id equals it.
C5_JoinFirstDefined ==
    \A i \in 1..Len(rendered) :
        LET c == Candidates(kmlData.features[i])
        IN rendered[i].csvRow
             = JoinOf(kmlData.features[i], {k \in 1..4 : c[k].def})

\* C5 (amended): the feature's identifier is the first non-empty value among
\* feature.id, properties.id, properties.Id and properties.ID (an empty string
\* is passed over like an absent value); the lookup gives no match when there
\* is none or it is no key of the index, and otherwise the last row whose id
\* equals it.
C5_JoinFirstNonEmpty ==
    \A i \in 1..Len(rendered) :
        LET c == Candidates(kmlData.features[i])
        IN rendered[i].csvRow
             = JoinOf(kmlData.features[i],
                      {k \in 1..4 : c[k].def /\ c[k].s # <<>>})

\* C5 witness: a feature without feature.id whose properties.id is the empty
\* string is matched to a record through properties.Id.
C5_Witness ==
    \E i \in 1..Len(rendered) :
        /\ ~kmlData.features[i].id.def
        /\ kmlData.features[i].properties.id = Str(<<>>)
        /\ Truthy(kmlData.features[i].properties.Id)
        /\ rendered[i].csvRow.found

\* C6: for finite min < max the colour of value = min is the light anchor
\* rgb(237, 233, 254) and the colour of value = max is the dark anchor
\* rgb(88, 28, 135); with a null range, a non-finite value or min = max the
\* colour is the neutral constant.
C6_BoundaryLaws ==
    colorOut.def =>
        LET value == colorArgs.value
            min == colorArgs.min
            max == colorArgs.max
            ordered == IsFinite(min) /\ IsFinite(max) /\ min.v < max.v
        IN /\ (ordered /\ value = min)
                => colorOut.c = Rgb(Fin(237), Fin(233), Fin(254))
           /\ (ordered /\ value = max)
                => colorOut.c = Rgb(Fin(88), Fin(28), Fin(135))
           /\ ((min.k = "null" /\ max.k = "null") \/ ~IsFinite(value)
               \/ min = max)
                => colorOut.c = NeutralColor

\* C7: selectedMetric is revenue initially, is always revenue or cost, is
\* revenue right after every successful CSV load, and is left unchanged by
\* every KML upload, by Clear KML and by every failed CSV upload.
C7_SelectedMetricLifecycle ==
    /\ selectedMetric = "revenue"
    /\ [](selectedMetric \in Metrics)
    /\ [][/\ (IsOnload /\ lastFile'.kind = "csv" /\ ~FailingFile(lastFile'))
               => selectedMetric' = "revenue"
          /\ (\/ IsOnload /\ lastFile'.kind = "kml"
              \/ IsOnload /\ FailingFile(lastFile')
              \/ BagCardinality(readers') > BagCardinality(readers)
              \/ kmlData.def /\ ~kmlData'.def)
               => selectedMetric' = selectedMetric]_vars

\* C7 witness: the metric is cost right after a KML document was loaded.
C7_Witness ==
    selectedMetric = "cost" /\ lastOp = "kmlLoaded" /\ kmlData.def

\* C8: once no read of a kind is pending, the active dataset of that kind is
\* the one parsed from the most recently started successful upload, whatever
\* order the reads completed in.
C8_LatestUploadWins ==
    /\ (latestOk.csv.kind = "csv"
        /\ \A file \in BagToSet(readers) : file.kind # "csv")
         => csvRows = ParseCsv(latestOk.csv.text).rows
    /\ (latestOk.kml.kind = "kml" /\ kmlData.def
        /\ \A file \in BagToSet(readers) : file.kind # "kml")
         => kmlData.features = ParseKml(latestOk.kml.kml).features

\* C9: the returned weight, stroke opacity and fill opacity are the feature's
\* stroke-width, stroke-opacity and fill-opacity whenever it defines them (0
\* included), and the defaults 3, 0.8 and 0.2 only when it does not.
C9_StylePassThrough ==
    \A i \in 1..Len(rendered) :
        LET props == kmlData.features[i].properties
            style == rendered[i].style
        IN /\ style.weight
                = IF props.strokeWidth.def THEN props.strokeWidth.v ELSE 3
           /\ style.opacity
                = IF props.strokeOpacity.def THEN props.strokeOpacity.v ELSE 8
           /\ style.fillOpacity
                = IF props.fillOpacity.def THEN props.fillOpacity.v ELSE 2

\* C10: a feature matched to a record has stroke and fill colour equal to the
\* classifier's colour of the record's value of the selected metric against
\* the range of the current records, which is the neutral colour when the
\* range is absent; an unmatched feature keeps its own stroke and fill
\* properties or the default colour.
C10_MatchedFeatureColour ==
    \A i \in 1..Len(rendered) :
        LET props == kmlData.features[i].properties
            style == rendered[i].style
            got == rendered[i].csvRow
            colour == getColorForValue(MetricOf(got.row, selectedMetric),
                                       metricMin(csvRows, selectedMetric),
                                       metricMax(csvRows, selectedMetric))
        IN IF got.found
           THEN style.color = colour /\ style.fillColor = colour
           ELSE /\ style.color
                     = IF props.stroke.def THEN props.stroke.c ELSE DefaultColor
                /\ style.fillColor
                     = IF props.fill.def THEN props.fill.c ELSE DefaultColor

\* the interpolation parameter t = (value - min) / (max - min) is a number of
\* [0, 1]: the quotient of two finite differences with 0 <= value - min <=
\* max - min, or of a finite difference by Infinity (which is 0)
UnitParameter(value, min, max) ==
    LET n == Minus(value, min)
        d == Minus(max, min)
    IN /\ IsFinite(n)
       /\ IF IsFinite(d) THEN 0 <= n.v /\ n.v <= d.v ELSE d.k = "inf"

\* a colour channel is a number between the dark and the light anchor channel
BetweenAnchors(channel, light, dark) ==
    IsFinite(channel) /\ dark <= channel.v /\ channel.v <= light

\* C11: at every render the record index and the metric range are those of the
\* current csvRows and selectedMetric, so for every matched feature whose
\* value of the selected metric is finite, metricMin <= value <= metricMax,
\* the interpolation parameter t is in [0, 1] (when min < max) and every
\* channel of the feature's colour lies between the dark and the light anchor
\* channel.
C11_RangeConsistency ==
    \A i \in 1..Len(rendered) :
        LET got == rendered[i].csvRow
            value == MetricOf(got.row, selectedMetric)
            min == metricMin(csvRows, selectedMetric)
            max == metricMax(csvRows, selectedMetric)
            colour == rendered[i].style.color
        IN /\ got = JoinRow(kmlData.features[i], csvRows)
           /\ (got.found /\ IsFinite(value)) =>
                /\ IsFinite(min) /\ IsFinite(max)
                /\ min.v <= value.v /\ value.v <= max.v
                /\ min # max => UnitParameter(value, min, max)
                /\ BetweenAnchors(colour.r, LightAnchor.r, DarkAnchor.r)
                /\ BetweenAnchors(colour.g, LightAnchor.g, DarkAnchor.g)
                /\ BetweenAnchors(colour.b, LightAnchor.b, DarkAnchor.b)

\* the header name of a metric's column
MetricColumn(metric) == IF metric = "revenue" THEN ColRevenue ELSE ColCost

\* a cell that is no number: missing because the line is short, empty, or
\* text other than a decimal literal
Uncoercible(cell) ==
    \/ ~cell.def
    \/ cell.s = <<>>
    \/ ~(AllDigits(cell.s) \/ (Head(cell.s) = "-" /\ AllDigits(Tail(cell.s))))

\* a colour whose channels are all numbers
WellFormedColour(colour) ==
    IsFinite(colour.r) /\ IsFinite(colour.g) /\ IsFinite(colour.b)

\* C12: every data line gives a record; a revenue or cost cell that cannot be
\* coerced to a number (non-numeric text, an empty cell, a cell missing
\* because the line is short) gives a non-finite value in that field; the
\* range of a metric is the minimum and maximum over the numbers of the other
\* cells only, absent when there are none; and a feature matched to a record
\* with such a value gets a style with well-formed colours.
C12_PermissiveRows ==
    LET table == latestOk.csv.table
        cell(i, metric) ==
            TableCell(table.lines[i],
                      ColumnOf(table.header, MetricColumn(metric)))
        numbers(metric) ==
            {ToNumber(cell(i, metric)).v : i \in
                {j \in 1..Len(table.lines) : ~Uncoercible(cell(j, metric))}}
    IN csvRows # <<>> =>
         /\ Len(csvRows) = Len(table.lines)
         /\ \A metric \in Metrics :
               /\ \A i \in 1..Len(table.lines) :
                     Uncoercible(cell(i, metric))
                        => ~IsFinite(MetricOf(csvRows[i], metric))
               /\ IF numbers(metric) = {}
                  THEN /\ metricMin(csvRows, metric) = Null
                       /\ metricMax(csvRows, metric) = Null
                  ELSE /\ metricMin(csvRows, metric)
                            = Fin(CHOOSE v \in numbers(metric) :
                                     \A w \in numbers(metric) : v <= w)
                       /\ metricMax(csvRows, metric)
                            = Fin(CHOOSE v \in numbers(metric) :
                                     \A w \in numbers(metric) : v >= w)
         /\ \A i \in 1..Len(rendered) :
               (/\ rendered[i].csvRow.found
                /\ ~IsFinite(MetricOf(rendered[i].csvRow.row, selectedMetric)))
                  => /\ WellFormedColour(rendered[i].style.color)
                     /\ WellFormedColour(rendered[i].style.fillColor)

====
